---- MODULE Spec2Model ----
(***************************************************************************)
(* Model of the concurrent utility layer of snowcore_parts_intelligence:   *)
(*   - utils/data_loader.py     run_queries_parallel (thread-pool fan-out) *)
(*   - utils/query_registry.py  register_query / get_registry              *)
(***************************************************************************)
EXTENDS Integers, Sequences, FiniteSets, TLC

(***************************************************************************)
(* Bounds and input domains                                                *)
(***************************************************************************)
\* largest batch handed to a single run_queries_parallel call
MaxBatch == 9
\* largest batch of each of two concurrently running calls
MaxIsoBatch == 2
\* number of register_query calls explored in the registry specifications
MaxCalls == 3
\* number of register_query calls explored next to a caller editing a snapshot
MaxSnapCalls == 2
\* longest event sequence the agent service answers with
MaxEvents == 2
\* number of questions asked through the assistant panel
MaxPanelAsk == 1
\* number of questions asked by a caller of the thread store functions
MaxAsk == 2

\* the fixed cap of data_loader.py:13, min(8, len(query_map))
FixedCap == 8

Calls == {1, 2}
Texts == {"A", "B"}
Keys == {"Q", "R"}
Descriptions == {"d1", "d2"}

\* result names, in the insertion order of query_map
AllNames == <<"q1", "q2", "q3", "q4", "q5", "q6", "q7", "q8", "q9", "q10", "q11", "q12">>

None == "None"
EmptyDict == [x \in {} |-> x]
\* "no exception" and "no result" of a future
NoExc == [type |-> None, name |-> None, sql |-> None]
NoResult == [rows_of |-> None]

NoCall == [key |-> None, sql |-> None, description |-> None]
\* the caller holds no thread list
NoHandle == [held |-> FALSE, page_id |-> None, ref |-> 0]
\* no query_agent result yet
NoResultDict == [none |-> TRUE]
NoOp == [name |-> None, page_id |-> None, raised |-> FALSE]
\* no request has been answered
NoReply ==
    [shape |-> "none", status |-> 0, detail |-> <<>>,
     body |-> [is_str |-> TRUE, valid |-> FALSE, raw |-> <<>>,
               value |-> [kind |-> "scalar", events |-> <<>>, fields |-> EmptyDict]]]

Min(a, b) == IF a < b THEN a ELSE b

\* d[k] = v of a Python dict
DictSet(d, k, v) == [x \in (DOMAIN d) \cup {k} |-> IF x = k THEN v ELSE d[x]]

\* the query_map of call c with n entries: the i-th inserted name and its SQL
\* text; the two calls bind the same names to different texts
TextOf(c, i) == IF (i + c) % 2 = 0 THEN "A" ELSE "B"
QueryMap(c, n) == [i \in 1..n |-> [name |-> AllNames[i], sql |-> TextOf(c, i)]]

VARIABLES
    session,        \* the data-access service: the set of query texts it fails on
    query_map,      \* per call: the batch, a sequence of [name, sql] in dict order
    pc,             \* per call: position of the calling thread in run_queries_parallel
    max_workers,    \* per call: the executor's max_workers
    num_threads,    \* per call: worker threads the executor has spawned
    work_queue,     \* per call: submitted futures not yet taken by a worker (FIFO)
    futures,        \* per call: future id -> [name, sql, state, result, exception]
    yielded,        \* per call: futures already produced by as_completed
    results,        \* per scratch mapping: name -> result (the local `results`)
    pending_exc,    \* per call: exception travelling out of the with block
    outcome         \* per call: what the caller got: [kind, value]

batchVars == <<session, query_map, pc, max_workers, num_threads, work_queue,
               futures, yielded, results, pending_exc, outcome>>

VARIABLES
    heap,           \* entry dicts {"sql", "description"}: reference -> record
    registry,       \* _REGISTRY: key -> reference of its entry dict
    rpc,            \* per thread: the register_query call it is inside (line 9 passed)
    calls,          \* number of register_query calls started
    last_call,      \* the register_query call that finished last, and how
    first_sql,      \* key -> text of the first successful registration
    handed,         \* key -> texts register_query has returned for that key
    snapshot        \* the dict get_registry() returned last: [taken, d]

regVars == <<heap, registry, rpc, calls, last_call, first_sql, handed, snapshot>>

VARIABLES
    available,      \* whether `import _snowflake` succeeds in this environment
    agent_threads,  \* st.session_state.agent_threads: [present, d: page_id -> list reference]
    lists,          \* the list objects holding turns: reference -> sequence of turns
    thread,         \* the list the caller holds: [held, page_id, ref]
    hpc,            \* position inside _handle_user_message: idle, agent, respond
    prompt,         \* the prompt of the _handle_user_message call in progress
    response,       \* what send_snow_api_request gave the call in progress
    result,         \* what query_agent returned to the call in progress
    requests,       \* requests the call in progress has sent to the agent service
    asked,          \* number of _handle_user_message calls started
    before,         \* the turns of the caller's list when _handle_user_message started
    op              \* the operation that ran last: [name, page_id (of a clear), raised]

agentVars == <<available, agent_threads, lists, thread, hpc, prompt, response, result,
               requests, asked, before, op>>

vars == <<batchVars, regVars, agentVars>>

(***************************************************************************)
(* utils/data_loader.py                                                    *)
(***************************************************************************)
\* session.sql(sql).to_pandas(): the result set of a query text
ToPandas(sql) == [rows_of |-> sql]

\* run_one(name, sql): what the future ends with
RunOne(c, name, sql) ==
    IF sql \in session
    THEN [result |-> NoResult, exception |-> [type |-> "SessionError", name |-> None, sql |-> sql]]
    ELSE [result |-> ToPandas(sql), exception |-> NoExc]

\* max_workers=min(8, len(query_map))
MaxWorkersUncapped(n) == n
MaxWorkers(n) == Min(FixedCap, n)

\* the scratch mapping `results` is a local of the call
ScratchShared(c) == 1
ScratchOf(c) == c

\* futures[future]: the name the future was submitted for
FutureNameShifted(c, f) == futures[c][(f % Len(query_map[c])) + 1].name
FutureName(c, f) == futures[c][f].name

Running(c) == {f \in DOMAIN futures[c] : futures[c][f].state = "RUNNING"}
Finished(c) == {f \in DOMAIN futures[c] : futures[c][f].state = "FINISHED"}
Names(c) == {query_map[c][i].name : i \in 1..Len(query_map[c])}
SqlOfName(c, name) == query_map[c][CHOOSE i \in 1..Len(query_map[c]) : query_map[c][i].name = name].sql

\* results = {} ; ThreadPoolExecutor(max_workers=...): rejects max_workers <= 0
CreateExecutor(c) ==
    /\ pc[c] = "start"
    /\ results' = [results EXCEPT ![ScratchOf(c)] = EmptyDict]
    /\ IF MaxWorkers(Len(query_map[c])) <= 0
       THEN /\ pc' = [pc EXCEPT ![c] = "raised"]
            /\ outcome' = [outcome EXCEPT ![c] =
                  [kind |-> "raised", value |-> EmptyDict,
                   error |-> [type |-> "ValueError", name |-> None, sql |-> None]]]
            /\ UNCHANGED max_workers
       ELSE /\ pc' = [pc EXCEPT ![c] = "submit"]
            /\ max_workers' = [max_workers EXCEPT ![c] = MaxWorkers(Len(query_map[c]))]
            /\ UNCHANGED outcome
    /\ UNCHANGED <<session, query_map, num_threads, work_queue, futures, yielded, pending_exc>>
    /\ UNCHANGED <<regVars, agentVars>>

\* executor.submit(run_one, name, sql) for the next item of query_map
Submit(c) ==
    /\ pc[c] = "submit"
    /\ LET f == Len(futures[c]) + 1
       IN /\ f <= Len(query_map[c])
          /\ futures' = [futures EXCEPT ![c] = Append(@,
                 [name |-> query_map[c][f].name, sql |-> query_map[c][f].sql,
                  state |-> "PENDING",
                  result |-> NoResult, exception |-> NoExc])]
          /\ work_queue' = [work_queue EXCEPT ![c] = Append(@, f)]
          /\ num_threads' = [num_threads EXCEPT ![c] =
                 IF @ < max_workers[c] THEN @ + 1 ELSE @]
          /\ pc' = [pc EXCEPT ![c] = IF f = Len(query_map[c]) THEN "collect" ELSE "submit"]
    /\ UNCHANGED <<session, query_map, max_workers, yielded, results, pending_exc, outcome>>
    /\ UNCHANGED <<regVars, agentVars>>

\* a free worker thread takes the head of the work queue and starts run_one
WorkerStart(c) ==
    /\ work_queue[c] # <<>>
    /\ Cardinality(Running(c)) < num_threads[c]
    /\ LET f == Head(work_queue[c])
       IN futures' = [futures EXCEPT ![c][f].state = "RUNNING"]
    /\ work_queue' = [work_queue EXCEPT ![c] = Tail(@)]
    /\ UNCHANGED <<session, query_map, pc, max_workers, num_threads, yielded, results,
                   pending_exc, outcome>>
    /\ UNCHANGED <<regVars, agentVars>>

\* run_one returns or raises inside the worker; the future is finished
WorkerFinish(c) ==
    /\ \E f \in Running(c) :
         LET r == RunOne(c, futures[c][f].name, futures[c][f].sql)
         IN futures' = [futures EXCEPT ![c][f] =
                [name |-> @.name, sql |-> @.sql, state |-> "FINISHED",
                 result |-> r.result, exception |-> r.exception]]
    /\ UNCHANGED <<session, query_map, pc, max_workers, num_threads, work_queue, yielded,
                   results, pending_exc, outcome>>
    /\ UNCHANGED <<regVars, agentVars>>

\* one iteration of `for future in as_completed(futures)`:
\*     name = futures[future]; results[name] = future.result()
Collect(c) ==
    /\ pc[c] = "collect"
    /\ \E f \in Finished(c) \ yielded[c] :
         /\ yielded' = [yielded EXCEPT ![c] = @ \cup {f}]
         /\ IF futures[c][f].exception # NoExc
            THEN /\ pending_exc' = [pending_exc EXCEPT ![c] = futures[c][f].exception]
                 /\ pc' = [pc EXCEPT ![c] = "exit"]
                 /\ UNCHANGED results
            ELSE /\ results' = [results EXCEPT ![ScratchOf(c)] =
                        DictSet(@, FutureName(c, f), futures[c][f].result)]
                 /\ pc' = [pc EXCEPT ![c] =
                        IF yielded'[c] = DOMAIN futures[c] THEN "exit" ELSE "collect"]
                 /\ UNCHANGED pending_exc
    /\ UNCHANGED <<session, query_map, max_workers, num_threads, work_queue, futures, outcome>>
    /\ UNCHANGED <<regVars, agentVars>>

\* executor.shutdown(wait=True) of the with block's exit: the workers are joined,
\* and they leave only after the work queue is drained (no future is cancelled)
WorkersNotJoined(c) == TRUE
WorkersJoined(c) == work_queue[c] = <<>> /\ Running(c) = {}

\* leaving the with block: executor.shutdown(wait=True) joins the workers, which
\* drain the work queue first; then `return results` or the exception propagates
ExitExecutor(c) ==
    /\ pc[c] = "exit"
    /\ WorkersJoined(c)
    /\ IF pending_exc[c] # NoExc
       THEN /\ pc' = [pc EXCEPT ![c] = "raised"]
            /\ outcome' = [outcome EXCEPT ![c] =
                   [kind |-> "raised", value |-> EmptyDict, error |-> pending_exc[c]]]
       ELSE /\ pc' = [pc EXCEPT ![c] = "returned"]
            /\ outcome' = [outcome EXCEPT ![c] =
                   [kind |-> "returned", value |-> results[ScratchOf(c)], error |-> NoExc]]
    /\ UNCHANGED <<session, query_map, max_workers, num_threads, work_queue, futures, yielded,
                   results, pending_exc>>
    /\ UNCHANGED <<regVars, agentVars>>

BatchNext ==
    \E c \in Calls :
       \/ CreateExecutor(c)
       \/ Submit(c)
       \/ WorkerStart(c)
       \/ WorkerFinish(c)
       \/ Collect(c)
       \/ ExitExecutor(c)

RegIdle ==
    /\ heap = <<>>
    /\ registry = EmptyDict
    /\ rpc = [t \in Calls |-> NoCall]
    /\ calls = 0
    /\ last_call = [n |-> 0, key |-> None, sql |-> None, description |-> None,
                    outcome |-> None, ret |-> None]
    /\ first_sql = EmptyDict
    /\ handed = [k \in Keys |-> {}]
    /\ snapshot = [taken |-> FALSE, d |-> EmptyDict]

\* a fresh session: st.session_state has no agent_threads yet
AgentIdle ==
    /\ agent_threads = [present |-> FALSE, d |-> EmptyDict]
    /\ lists = EmptyDict
    /\ thread = NoHandle
    /\ hpc = "idle"
    /\ prompt = <<>>
    /\ response = NoReply
    /\ result = NoResultDict
    /\ requests = 0
    /\ asked = 0
    /\ before = <<>>
    /\ op = NoOp

BatchInitFor(n1, n2, active) ==
    /\ session \in SUBSET Texts
    /\ query_map = [c \in Calls |-> IF c = 1 THEN QueryMap(1, n1) ELSE QueryMap(2, n2)]
    /\ pc = [c \in Calls |-> IF c \in active THEN "start" ELSE "none"]
    /\ max_workers = [c \in Calls |-> 0]
    /\ num_threads = [c \in Calls |-> 0]
    /\ work_queue = [c \in Calls |-> <<>>]
    /\ futures = [c \in Calls |-> <<>>]
    /\ yielded = [c \in Calls |-> {}]
    /\ results = [c \in Calls |-> EmptyDict]
    /\ pending_exc = [c \in Calls |-> NoExc]
    /\ outcome = [c \in Calls |-> [kind |-> "none", value |-> EmptyDict, error |-> NoExc]]

\* one call of run_queries_parallel on a batch of 0..MaxBatch queries
Init ==
    /\ \E n \in 0..MaxBatch : BatchInitFor(n, 0, {1})
    /\ RegIdle
    /\ available = FALSE
    /\ AgentIdle

Next == BatchNext

Spec == Init /\ [][Next]_vars

\* two calls of run_queries_parallel running concurrently on different batches
IsoInit ==
    /\ \E n1 \in 0..MaxIsoBatch, n2 \in 0..MaxIsoBatch : BatchInitFor(n1, n2, {1, 2})
    /\ RegIdle
    /\ available = FALSE
    /\ AgentIdle

SpecIso == IsoInit /\ [][BatchNext]_vars

(***************************************************************************)
(* utils/query_registry.py                                                 *)
(***************************************************************************)
\* the registry as a caller reads it: key -> {"sql", "description"}
RegistryView == [k \in DOMAIN registry |-> heap[registry[k]]]

\* line 9: key in _REGISTRY and _REGISTRY[key]["sql"] != sql
ConflictsNever(key, sql) == FALSE
ConflictsOnKey(key, sql) == key \in DOMAIN registry
Conflicts(key, sql) == key \in DOMAIN registry /\ heap[registry[key]].sql # sql

\* line 11: _REGISTRY[key] = <reference of the new entry dict>
BoundRebuilt(reg, key, ref) == [x \in {key} |-> ref]
Bound(reg, key, ref) == DictSet(reg, key, ref)

\* lines 11-12: build the entry dict, bind the key to it, return sql
StoreAndReturn(key, sql, description) ==
    /\ heap' = Append(heap, [sql |-> sql, description |-> description])
    /\ registry' = Bound(registry, key, Len(heap) + 1)
    /\ last_call' = [n |-> last_call.n + 1, key |-> key, sql |-> sql,
                     description |-> description, outcome |-> "returned", ret |-> sql]
    /\ first_sql' = IF key \in DOMAIN first_sql THEN first_sql ELSE DictSet(first_sql, key, sql)
    /\ handed' = [handed EXCEPT ![key] = @ \cup {sql}]

\* line 10: raise ValueError
RaiseConflict(key, sql, description) ==
    /\ last_call' = [n |-> last_call.n + 1, key |-> key, sql |-> sql,
                     description |-> description, outcome |-> "ValueError", ret |-> None]
    /\ UNCHANGED <<heap, registry, first_sql, handed>>

\* register_query(key, sql, description), run without interference
Register(key, sql, description) ==
    /\ calls < MaxCalls
    /\ \A t \in Calls : rpc[t] = NoCall
    /\ calls' = calls + 1
    /\ IF Conflicts(key, sql)
       THEN RaiseConflict(key, sql, description)
       ELSE StoreAndReturn(key, sql, description)
    /\ UNCHANGED <<rpc, snapshot>>
    /\ UNCHANGED <<batchVars, agentVars>>

\* register_query in thread t, up to the test of line 9
RegisterCheck(t, key, sql, description) ==
    /\ calls < MaxCalls
    /\ rpc[t] = NoCall
    /\ calls' = calls + 1
    /\ IF Conflicts(key, sql)
       THEN /\ RaiseConflict(key, sql, description)
            /\ UNCHANGED rpc
       ELSE /\ rpc' = [rpc EXCEPT ![t] = [key |-> key, sql |-> sql, description |-> description]]
            /\ UNCHANGED <<heap, registry, last_call, first_sql, handed>>
    /\ UNCHANGED snapshot
    /\ UNCHANGED <<batchVars, agentVars>>

\* register_query in thread t, lines 11-12
RegisterStore(t) ==
    /\ rpc[t] # NoCall
    /\ StoreAndReturn(rpc[t].key, rpc[t].sql, rpc[t].description)
    /\ rpc' = [rpc EXCEPT ![t] = NoCall]
    /\ UNCHANGED <<calls, snapshot>>
    /\ UNCHANGED <<batchVars, agentVars>>

\* get_registry(): dict(_REGISTRY), a new dict bound to the same entry dicts
GetRegistry ==
    /\ snapshot' = [taken |-> TRUE, d |-> registry]
    /\ UNCHANGED <<heap, registry, rpc, calls, last_call, first_sql, handed>>
    /\ UNCHANGED <<batchVars, agentVars>>

\* the caller of get_registry() adds a key to the returned dict
CallerAddsKey(k) ==
    /\ snapshot.taken
    /\ k \notin DOMAIN snapshot.d
    /\ \E ref \in DOMAIN heap : snapshot' = [snapshot EXCEPT !.d = DictSet(@, k, ref)]
    /\ UNCHANGED <<heap, registry, rpc, calls, last_call, first_sql, handed>>
    /\ UNCHANGED <<batchVars, agentVars>>

\* the caller of get_registry() deletes a key of the returned dict
CallerDeletesKey(k) ==
    /\ snapshot.taken
    /\ k \in DOMAIN snapshot.d
    /\ snapshot' = [snapshot EXCEPT !.d = [x \in (DOMAIN @) \ {k} |-> @[x]]]
    /\ UNCHANGED <<heap, registry, rpc, calls, last_call, first_sql, handed>>
    /\ UNCHANGED <<batchVars, agentVars>>

\* the caller of get_registry() assigns a field of a returned entry:
\* r[k]["sql"] = v or r[k]["description"] = v
CallerSetsField(k, field, v) ==
    /\ snapshot.taken
    /\ k \in DOMAIN snapshot.d
    /\ heap[snapshot.d[k]][field] # v
    /\ heap' = [heap EXCEPT ![snapshot.d[k]][field] = v]
    /\ UNCHANGED <<registry, rpc, calls, last_call, first_sql, handed, snapshot>>
    /\ UNCHANGED <<batchVars, agentVars>>

\* register_query called by the code that also calls get_registry
SnapRegister(key, sql, description) ==
    /\ calls < MaxSnapCalls
    /\ Register(key, sql, description)

RegInit ==
    /\ session = {}
    /\ BatchInitFor(0, 0, {})
    /\ RegIdle
    /\ available = FALSE
    /\ AgentIdle

\* register_query calls one after another
RegNext ==
    \E key \in Keys, sql \in Texts, description \in Descriptions :
        Register(key, sql, description)

SpecReg == RegInit /\ [][RegNext]_vars

\* register_query called from two threads at once
RegConcNext ==
    \E t \in Calls :
       \/ \E key \in Keys, sql \in Texts, description \in Descriptions :
             RegisterCheck(t, key, sql, description)
       \/ RegisterStore(t)

SpecRegConc == RegInit /\ [][RegConcNext]_vars

\* register_query and get_registry calls, and a caller that edits what
\* get_registry returned
SnapNext ==
    \/ \E key \in Keys, sql \in Texts, description \in Descriptions :
          SnapRegister(key, sql, description)
    \/ GetRegistry
    \/ \E k \in Keys : CallerAddsKey(k)
    \/ \E k \in Keys : CallerDeletesKey(k)
    \/ \E k \in Keys, v \in Texts : CallerSetsField(k, "sql", v)
    \/ \E k \in Keys, v \in Descriptions : CallerSetsField(k, "description", v)

SpecSnap == RegInit /\ [][SnapNext]_vars

(***************************************************************************)
(* utils/agent.py                                                          *)
(* A Python str is a sequence of tokens; + and "".join are \o.             *)
(***************************************************************************)
\* dict.get(k, default)
DictGet(d, k, default) == IF k \in DOMAIN d THEN d[k] ELSE default

RECURSIVE Join(_)
\* "".join(parts)
Join(parts) == IF parts = <<>> THEN <<>> ELSE Head(parts) \o Join(Tail(parts))

\* an optional list: None or a list
NoneList == [is_none |-> TRUE, items |-> <<>>]
SomeList(items) == [is_none |-> FALSE, items |-> items]
\* a test that no list passes
TruthyNever(x) == FALSE
\* truth value of an optional list, as `if x:` takes it
Truthy(x) == ~x.is_none /\ x.items # <<>>

\* event types whose text goes to tool_results (lines 129-132)
ToolEventTypesShort == {"tool_result"}
ToolEventTypes == {"tool_result", "analyst_result"}

\* the events in the order the for loop of line 123 visits them
VisitReversed(events) == [i \in 1..Len(events) |-> events[Len(events) + 1 - i]]
Visit(events) == events

RECURSIVE FoldEvents(_, _, _)
\* lines 123-134: the loop over the events, with text_parts and tool_results
FoldEvents(events, text_parts, tool_results) ==
    IF events = <<>>
    THEN [error |-> FALSE, message |-> <<>>, text_parts |-> text_parts,
          tool_results |-> tool_results]
    ELSE LET event == Head(events)
             event_type == DictGet(event, "event", "")
             data == DictGet(event, "data", EmptyDict)
         IN IF event_type = "text"
            THEN FoldEvents(Tail(events), Append(text_parts, DictGet(data, "text", <<>>)),
                            tool_results)
            ELSE IF event_type \in ToolEventTypes
            THEN FoldEvents(Tail(events), text_parts,
                            Append(tool_results, DictGet(data, "text", <<>>)))
            ELSE IF event_type = "error"
            THEN [error |-> TRUE, message |-> DictGet(data, "message", <<"Unknown error">>),
                  text_parts |-> text_parts, tool_results |-> tool_results]
            ELSE FoldEvents(Tail(events), text_parts, tool_results)

\* the response field looked at before the message field
FlatPartsResponseFirst(fields) ==
    IF "response" \in DOMAIN fields THEN <<fields["response"]>>
    ELSE IF "message" \in DOMAIN fields THEN <<fields["message"]>>
    ELSE <<>>
\* lines 135-140: the non-streaming object
FlatParts(fields) ==
    IF "message" \in DOMAIN fields THEN <<fields["message"]>>
    ELSE IF "response" \in DOMAIN fields THEN <<fields["response"]>>
    ELSE <<>>

\* the loop that stops at no event: error events are passed over
ParseLenient(value) ==
    LET f == FoldEvents(SelectSeq(value.events, LAMBDA e : DictGet(e, "event", "") # "error"),
                        <<>>, <<>>)
    IN [response |-> Join(f.text_parts),
        tool_results |-> IF f.tool_results # <<>> THEN SomeList(f.tool_results) ELSE NoneList]

\* _parse_agent_response(result)
ParseAgentResponse(value) ==
    LET f == IF value.kind = "list" THEN FoldEvents(Visit(value.events), <<>>, <<>>)
             ELSE [error |-> FALSE, message |-> <<>>, tool_results |-> <<>>,
                   text_parts |-> IF value.kind = "dict" THEN FlatParts(value.fields) ELSE <<>>]
    IN IF f.error
       THEN [error |-> f.message]
       ELSE [response |-> Join(f.text_parts),
             tool_results |-> IF f.tool_results # <<>> THEN SomeList(f.tool_results)
                              ELSE NoneList]

(***************************************************************************)
(* What the agent service can answer (inputs of query_agent)               *)
(***************************************************************************)
EventAlphabet ==
    { [event |-> "text", data |-> [text |-> <<"x">>]],
      [event |-> "text", data |-> [text |-> <<"y">>]],
      [event |-> "tool_result", data |-> [text |-> <<"x">>]],
      [event |-> "analyst_result", data |-> [text |-> <<"y">>]],
      [event |-> "error", data |-> [message |-> <<"quota">>]],
      [event |-> "error"],
      [event |-> "status", data |-> [text |-> <<"x">>]] }

EventSeqs == UNION {[1..n -> EventAlphabet] : n \in 0..MaxEvents}

FlatFieldValue == [message |-> <<"m">>, response |-> <<"r">>, error |-> <<"quota">>]
FlatObjects == {[k \in ks |-> FlatFieldValue[k]] : ks \in SUBSET {"message", "response", "error"}}

ListValue(events) == [kind |-> "list", events |-> events, fields |-> EmptyDict]
DictValue(fields) == [kind |-> "dict", events |-> <<>>, fields |-> fields]
ScalarValue == [kind |-> "scalar", events |-> <<>>, fields |-> EmptyDict]

Values == {ListValue(es) : es \in EventSeqs} \cup {DictValue(fs) : fs \in FlatObjects}
              \cup {ScalarValue}

\* a response body: a JSON text (valid or not) or an already decoded value
Body(is_str, valid, value, raw) == [is_str |-> is_str, valid |-> valid, value |-> value, raw |-> raw]
Bodies == {Body(TRUE, TRUE, v, <<"<body>">>) : v \in Values}
FewBodies ==
    { Body(FALSE, TRUE, ListValue(<<[event |-> "text", data |-> [text |-> <<"x">>]]>>), <<"<body>">>),
      Body(TRUE, FALSE, ScalarValue, <<"Bad Gateway">>) }

\* an answer of the service in the words the canned maverick answer uses
MaverickBody ==
    Body(TRUE, TRUE,
         ListValue(<<[event |-> "text",
                      data |-> [text |-> <<"Current maverick spend is approximately $1.2M ...">>]]>>),
         <<"<body>">>)

\* what send_snow_api_request does: raises, or returns a sequence or a dict
Reply(shape, status, body, detail) == [shape |-> shape, status |-> status, body |-> body, detail |-> detail]
Replies ==
    {Reply("raise", 0, Body(TRUE, FALSE, ScalarValue, <<>>), d) : d \in {<<"timed out">>, <<"connection reset">>}}
    \cup {Reply("tuple3", 200, b, <<>>) : b \in Bodies \cup {MaverickBody}}
    \cup {Reply(sh, st, b, <<>>) : sh \in {"tuple3", "tuple2", "dict", "dict_nocontent"},
                                   st \in {200, 500}, b \in FewBodies}

\* the answers a caller of the thread store functions gets
FewReplies ==
    { Reply("raise", 0, Body(TRUE, FALSE, ScalarValue, <<>>), <<"timed out">>),
      Reply("tuple3", 200, Body(TRUE, TRUE, ListValue(<<[event |-> "text", data |-> [text |-> <<"x">>]],
             [event |-> "tool_result", data |-> [text |-> <<"y">>]]>>), <<"<body>">>), <<>>),
      Reply("dict", 500, Body(TRUE, FALSE, ScalarValue, <<"Bad Gateway">>), <<>>) }

\* the questions a user asks
Questions == { <<"Supplier", "Risk">>, <<"maverick">>, <<"consolidat">>, <<"compliance">>,
               <<"hello">> }
\* where the agent service is reachable the answer is decided by the service's
\* reply, not by the question: one question is explored there, all of them
\* where the canned answers are used
LiveQuestions == { <<"hello">> }
Personas == {"vp", "procurement"}
\* the personas of the pages that render the panel in the explored session
PanelPersonas == {"vp", None}

(***************************************************************************)
(* query_agent                                                             *)
(***************************************************************************)
\* str.lower() of one token
LowerToken(tok) ==
    IF tok = "Supplier" THEN "supplier" ELSE IF tok = "Risk" THEN "risk" ELSE tok
\* the question taken as typed
LowerKeep(str) == str
Lower(str) == [i \in 1..Len(str) |-> LowerToken(str[i])]
\* `kw in str`
Contains(str, kw) == \E i \in 1..Len(str) : str[i] = kw

\* _mock_agent_response(question)
MockAgentResponse(question) ==
    LET question_lower == Lower(question)
    IN [response |->
           IF Contains(question_lower, "risk") /\ Contains(question_lower, "supplier")
           THEN <<"Based on the supplier risk assessment, ...">>
           ELSE IF Contains(question_lower, "maverick") \/ Contains(question_lower, "off-contract")
           THEN <<"Current maverick spend is approximately $1.2M ...">>
           ELSE IF Contains(question_lower, "consolidat")
           THEN <<"There are 6 active consolidation scenarios ...">>
           ELSE IF Contains(question_lower, "fda") \/ Contains(question_lower, "compliance")
           THEN <<"FDA compliance requires audit trails ...">>
           ELSE <<"I can help you with questions about ... Your question was: '">>
                    \o question \o <<"'">>,
        tool_results |-> NoneList]

\* lines 100-105: status code and body of what the request returned
StatusAlwaysOk(reply) == 200
StatusCode(reply) == reply.status
ResponseBody(reply) ==
    IF reply.shape = "dict_nocontent"
    THEN Body(TRUE, TRUE, DictValue(EmptyDict), <<"{}">>)
    ELSE reply.body

StatusStr(status) == IF status = 200 THEN "200" ELSE IF status = 500 THEN "500" ELSE "?"

\* lines 88-111: the try block; raised tells that an exception left it
TryRequest(reply) ==
    IF reply.shape = "raise"
    THEN [raised |-> TRUE, detail |-> reply.detail, value |-> NoResultDict]
    ELSE LET status_code == StatusCode(reply)
             response_body == ResponseBody(reply)
         IN IF status_code = 200
            THEN IF response_body.is_str /\ ~response_body.valid
                 THEN [raised |-> TRUE, detail |-> <<"Expecting value">>, value |-> NoResultDict]
                 ELSE [raised |-> FALSE, detail |-> <<>>,
                       value |-> ParseAgentResponse(response_body.value)]
            ELSE [raised |-> FALSE, detail |-> <<>>,
                  value |-> [error |-> <<"API Error (", StatusStr(status_code), "): ">>
                                           \o response_body.raw]]

\* line 113: `except Exception` takes every exception of the try block
CatchesNone(detail) == FALSE
Catches(detail) == TRUE

\* there is no loop around the request: a failed request is not sent again
RetriesFailure(attempt) == attempt.raised \/ "error" \in DOMAIN attempt.value
Retries(attempt) == FALSE

(***************************************************************************)
(* The thread store and _handle_user_message                               *)
(***************************************************************************)
\* list objects that something still refers to
Live(at, th) == {at.d[k] : k \in DOMAIN at.d} \cup (IF th.held THEN {th.ref} ELSE {})
Reachable(ls, at, th) == [r \in Live(at, th) \cap DOMAIN ls |-> ls[r]]
\* a list object that exists already, a new one only when there is none
SharedRef ==
    IF DOMAIN lists = {} THEN Cardinality(DOMAIN lists) + 1
    ELSE CHOOSE r \in DOMAIN lists : TRUE
\* reference of a new list object
NewRef == CHOOSE r \in 1..(Cardinality(DOMAIN lists) + 1) : r \notin DOMAIN lists

\* what _get_thread(page_id) would return, by value, for a store at and list
\* objects ls
ReadThreadIn(at, ls, page_id) ==
    IF at.present /\ page_id \in DOMAIN at.d THEN ls[at.d[page_id]] ELSE <<>>
ReadThread(page_id) == ReadThreadIn(agent_threads, lists, page_id)

\* _get_thread(page_id): the store and the list objects after it, and the list returned
GetThreadStore(page_id) ==
    IF agent_threads.present /\ page_id \in DOMAIN agent_threads.d
    THEN agent_threads
    ELSE [present |-> TRUE, d |-> DictSet(agent_threads.d, page_id, NewRef)]
GetThreadLists(page_id) ==
    IF agent_threads.present /\ page_id \in DOMAIN agent_threads.d
    THEN lists
    ELSE DictSet(lists, NewRef, <<>>)

\* line 51: "agent_threads" in st.session_state
HasStoreAssumed == TRUE
HasStore == agent_threads.present

\* _clear_thread(page_id): the store and the list objects after it
ClearStore(page_id) ==
    IF HasStore THEN [present |-> TRUE, d |-> DictSet(agent_threads.d, page_id, NewRef)]
    ELSE agent_threads
ClearLists(page_id) ==
    IF HasStore THEN DictSet(lists, NewRef, <<>>) ELSE lists
\* st.session_state.agent_threads[page_id] = [] raises when the store is missing
ClearRaises(page_id) == HasStore /\ ~agent_threads.present

\* list.append(turn)
AppendedFirst(turns, turn) == <<turn>> \o turns
Appended(turns, turn) == Append(turns, turn)

\* a turn under a role of its own
TurnOfSystem(role, content) == [role |-> "system", content |-> content]
\* lines 241 and 259: the dict appended for a turn
Turn(role, content) == [role |-> role, content |-> content]

\* line 248: the content of an error turn
ErrorContentBare(error) == error
ErrorContent(error) == <<"**Error:** ">> \o error

RECURSIVE ToolBlocks(_)
\* lines 255-256: one fenced block per tool result; the token "[fence]" stands
\* for the three backquotes of the source
ToolBlocks(items) ==
    IF items = <<>> THEN <<>>
    ELSE <<"[fence]\n">> \o Head(items) \o <<"\n[fence]\n">> \o ToolBlocks(Tail(items))

\* lines 247-256: the content of the assistant turn
ResponseContent(res) ==
    IF "error" \in DOMAIN res
    THEN ErrorContent(res.error)
    ELSE DictGet(res, "response", <<"No response received.">>)
             \o (IF Truthy(DictGet(res, "tool_results", NoneList))
                 THEN <<"\n\n**Tool Results:**\n">> \o ToolBlocks(res.tool_results.items)
                 ELSE <<>>)

\* thread = _get_thread(page_id), the caller keeps the list it got
TakeThread(page_id, name) ==
    /\ hpc = "idle"
    /\ agent_threads' = GetThreadStore(page_id)
    /\ thread' = [held |-> TRUE, page_id |-> page_id, ref |-> agent_threads'.d[page_id]]
    /\ lists' = Reachable(GetThreadLists(page_id), agent_threads', thread')
    /\ op' = [name |-> name, page_id |-> None, raised |-> FALSE]
    /\ UNCHANGED <<available, hpc, prompt, response, result, requests, asked, before>>
    /\ UNCHANGED <<batchVars, regVars>>

\* _get_thread(page_id) called by a user of the thread store
GetThread(page_id) == TakeThread(page_id, "get_thread")

\* _clear_thread(page_id); rerun tells whether st.rerun() follows, which ends
\* the script run and with it the caller's hold on its list
ClearThread(page_id, rerun) ==
    /\ hpc = "idle"
    /\ IF ClearRaises(page_id)
       THEN /\ op' = [name |-> "clear_thread", page_id |-> page_id, raised |-> TRUE]
            /\ UNCHANGED <<agent_threads, lists, thread>>
       ELSE /\ agent_threads' = ClearStore(page_id)
            /\ thread' = IF rerun THEN NoHandle ELSE thread
            /\ lists' = Reachable(ClearLists(page_id), agent_threads', thread')
            /\ op' = [name |-> "clear_thread", page_id |-> page_id, raised |-> FALSE]
    /\ UNCHANGED <<available, hpc, prompt, response, result, requests, asked, before>>
    /\ UNCHANGED <<batchVars, regVars>>

\* render_agent_panel lines 193-194: page_id = persona_context or "default"
Render(persona_context) ==
    /\ ~thread.held
    /\ TakeThread(IF persona_context = None THEN "default" ELSE persona_context, "render")

\* render_agent_panel lines 201-203: the Clear button
ClickClear ==
    /\ thread.held
    /\ ClearThread(thread.page_id, TRUE)

\* _handle_user_message line 241: the user turn goes to the list passed in
UserTurn(q) ==
    /\ hpc = "idle"
    /\ thread.held
    /\ lists' = [lists EXCEPT ![thread.ref] = Appended(@, Turn("user", q))]
    /\ before' = lists[thread.ref]
    /\ prompt' = q
    /\ response' = NoReply
    /\ result' = NoResultDict
    /\ requests' = 0
    /\ asked' = asked + 1
    /\ hpc' = "agent"
    /\ op' = [name |-> "user_turn", page_id |-> None, raised |-> FALSE]
    /\ UNCHANGED <<available, agent_threads, thread>>
    /\ UNCHANGED <<batchVars, regVars>>

\* a question typed into the panel or picked among the examples
PanelAsk(q) ==
    /\ asked < MaxPanelAsk
    /\ UserTurn(q)

\* _handle_user_message called by a user of the thread store
CallerAsk(q) ==
    /\ asked < MaxAsk
    /\ UserTurn(q)

\* _handle_user_message line 244: query_agent(session, prompt, persona_context),
\* the service answering with reply when it is asked
QueryAgent(reply) ==
    /\ hpc = "agent"
    /\ IF ~available
       THEN /\ result' = MockAgentResponse(prompt)
            /\ hpc' = "respond"
            /\ op' = [name |-> "query_agent", page_id |-> None, raised |-> FALSE]
            /\ UNCHANGED <<requests, response>>
       ELSE LET attempt == TryRequest(reply)
            IN /\ requests' = requests + 1
               /\ response' = reply
               /\ IF Retries(attempt)
                  THEN /\ hpc' = "agent"
                       /\ op' = [name |-> "request", page_id |-> None, raised |-> FALSE]
                       /\ UNCHANGED result
                  ELSE IF attempt.raised /\ ~Catches(attempt.detail)
                  THEN /\ hpc' = "idle"
                       /\ op' = [name |-> "handle_user_message", page_id |-> None,
                                 raised |-> TRUE]
                       /\ UNCHANGED result
                  ELSE /\ result' = IF attempt.raised
                                    THEN [error |-> <<"Agent request failed: ">> \o attempt.detail]
                                    ELSE attempt.value
                       /\ hpc' = "respond"
                       /\ op' = [name |-> "query_agent", page_id |-> None, raised |-> FALSE]
    /\ UNCHANGED <<available, agent_threads, lists, thread, prompt, asked, before>>
    /\ UNCHANGED <<batchVars, regVars>>

\* _handle_user_message lines 247-259: the assistant turn, after which the call's
\* locals are gone; rerun as in ClearThread
AssistantTurn(rerun) ==
    /\ hpc = "respond"
    /\ thread' = IF rerun THEN NoHandle ELSE thread
    /\ lists' = Reachable([lists EXCEPT ![thread.ref] =
                              Appended(@, Turn("assistant", ResponseContent(result)))],
                          agent_threads, thread')
    /\ hpc' = "idle"
    /\ op' = [name |-> "handle_user_message", page_id |-> None, raised |-> FALSE]
    /\ prompt' = <<>> /\ response' = NoReply /\ result' = NoResultDict
    /\ requests' = 0 /\ before' = <<>>
    /\ UNCHANGED <<available, agent_threads, asked>>
    /\ UNCHANGED <<batchVars, regVars>>

AskedQuestions == IF available THEN LiveQuestions ELSE Questions

AgentInit ==
    /\ session = {}
    /\ BatchInitFor(0, 0, {})
    /\ RegIdle
    /\ available \in BOOLEAN
    /\ AgentIdle

\* one session using the assistant panel: render, ask, clear
PanelNext ==
    \/ \E persona_context \in PanelPersonas : Render(persona_context)
    \/ ClickClear
    \/ \E q \in AskedQuestions : PanelAsk(q)
    \/ \E reply \in Replies : QueryAgent(reply)
    \/ AssistantTurn(TRUE)

SpecAgent == AgentInit /\ [][PanelNext]_vars

\* one session calling _get_thread, _clear_thread and _handle_user_message,
\* keeping the list it got from _get_thread for as long as it likes
ThreadsNext ==
    \/ \E page_id \in Personas : GetThread(page_id)
    \/ \E page_id \in Personas : ClearThread(page_id, FALSE)
    \/ \E q \in AskedQuestions : CallerAsk(q)
    \/ \E reply \in FewReplies : QueryAgent(reply)
    \/ AssistantTurn(FALSE)

SpecThreads == AgentInit /\ [][ThreadsNext]_vars

\* render_agent_panel lines 225-230 in a session of long conversations
PanelChat(q) ==
    /\ asked < MaxAsk
    /\ UserTurn(q)

\* one session using the assistant panel for conversations of several
\* exchanges, with the answers a caller of the thread store functions gets
ChatNext ==
    \/ \E persona_context \in PanelPersonas : Render(persona_context)
    \/ ClickClear
    \/ \E q \in AskedQuestions : PanelChat(q)
    \/ \E reply \in FewReplies : QueryAgent(reply)
    \/ AssistantTurn(TRUE)

SpecChat == AgentInit /\ [][ChatNext]_vars

(***************************************************************************)
(* Properties of run_queries_parallel                                      *)
(***************************************************************************)
FailingNames(c) == {query_map[c][i].name : i \in {j \in 1..Len(query_map[c]) : query_map[c][j].sql \in session}}
OwnResults(c, d) == \A nm \in DOMAIN d : nm \in Names(c) /\ d[nm] = ToPandas(SqlOfName(c, nm))

\* C1: a non-empty batch whose queries all succeed never raises, and the
\* mapping it returns has exactly the requested names as keys, each bound to
\* the result of that name's own query text, whatever the interleaving or the
\* completion order of the workers.
C1_BatchCompleteness ==
    (Len(query_map[1]) > 0 /\ FailingNames(1) = {}) =>
        /\ pc[1] # "raised"
        /\ pc[1] = "returned" =>
              /\ outcome[1].kind = "returned"
              /\ DOMAIN outcome[1].value = Names(1)
              /\ OwnResults(1, outcome[1].value)

C1_Witness ==
    /\ pc[1] = "returned"
    /\ Len(query_map[1]) >= 3
    /\ DOMAIN outcome[1].value = Names(1)
    /\ outcome[1].value["q1"] # outcome[1].value["q2"]

\* C2: when a query of the batch fails, the call fails with a BatchQueryError
\* that names a failing query of the batch, and hands no mapping to the caller.
C2_FailFast ==
    (FailingNames(1) # {} /\ pc[1] \in {"returned", "raised"}) =>
        /\ outcome[1].kind = "raised"
        /\ outcome[1].error.type = "BatchQueryError"
        /\ outcome[1].error.name \in FailingNames(1)
        /\ outcome[1].value = EmptyDict

\* C3: an empty batch returns an empty mapping, without failing and without
\* scheduling any query.
C3_EmptyBatch ==
    (Len(query_map[1]) = 0 /\ pc[1] \in {"returned", "raised"}) =>
        /\ outcome[1].kind = "returned"
        /\ outcome[1].value = EmptyDict
        /\ futures[1] = <<>>

\* C4: at every moment of a call, the number of its queries executing against
\* the data-access service is at most min(8, number of queries in the batch).
C4_BoundedConcurrency ==
    \A c \in Calls : Cardinality(Running(c)) <= Min(8, Len(query_map[c]))

C4_Witness ==
    /\ Len(query_map[1]) > 8
    /\ Cardinality(Running(1)) = 8
    /\ work_queue[1] # <<>>

\* C5: of two calls running concurrently on different batches, each one's
\* scratch mapping and returned mapping hold only its own names, each bound to
\* the result of its own query text; nothing of the other call shows up.
C5_BatchIsolation ==
    \A c \in Calls :
        /\ OwnResults(c, results[c])
        /\ \A f \in DOMAIN futures[c] : futures[c][f].name \in Names(c)
                                        /\ futures[c][f].sql = SqlOfName(c, futures[c][f].name)
        /\ pc[c] = "returned" =>
              /\ DOMAIN outcome[c].value = Names(c)
              /\ OwnResults(c, outcome[c].value)

C5_Witness ==
    /\ pc[1] = "returned" /\ Len(query_map[1]) = 2
    /\ pc[2] = "collect" /\ Len(query_map[2]) = 1
    /\ yielded[2] = {} /\ Finished(2) # {}
    /\ outcome[1].value["q1"] # ToPandas(SqlOfName(2, "q1"))

\* C20: when the call hands control back to its caller, by returning or by
\* raising, every query of the batch has been submitted and has run to its end:
\* none is still queued or executing, none was cancelled or skipped; a failed
\* query does not let the call raise before its siblings are done.
C20_RunToCompletion ==
    \A c \in Calls :
        pc[c] \in {"returned", "raised"} =>
            /\ Len(futures[c]) = Len(query_map[c])
            /\ \A f \in DOMAIN futures[c] :
                   /\ futures[c][f].state = "FINISHED"
                   /\ futures[c][f].name = query_map[c][f].name
                   /\ IF futures[c][f].sql \in session
                      THEN futures[c][f].exception # NoExc
                      ELSE futures[c][f].result = ToPandas(futures[c][f].sql)
            /\ work_queue[c] = <<>>

C20_Witness ==
    /\ pc[1] = "raised"
    /\ Len(query_map[1]) >= 3
    /\ outcome[1].error.type = "SessionError"
    /\ yielded[1] = {1}
    /\ \E f \in DOMAIN futures[1] : futures[1][f].exception = NoExc /\ futures[1][f].state = "FINISHED"

(***************************************************************************)
(* Properties of the query registry                                        *)
(***************************************************************************)
\* the step is a register_query call ending, made with key k
Registers(k) == last_call'.n = last_call.n + 1 /\ last_call'.key = k

\* C6: a register_query call for a key that is registered with a different
\* text raises the conflict error (ValueError) and leaves the registry as it
\* was: same keys, same text and description under each.
C6_RegistryConflict ==
    [][\A k \in Keys :
          (Registers(k) /\ k \in DOMAIN registry /\ RegistryView[k].sql # last_call'.sql) =>
              /\ last_call'.outcome = "ValueError"
              /\ RegistryView' = RegistryView]_vars

C6_Witness ==
    /\ last_call.outcome = "ValueError"
    /\ last_call.key \in DOMAIN registry
    /\ RegistryView[last_call.key].sql # last_call.sql

\* C7: a register_query call for an unseen key, or for a key registered with
\* the identical text, returns the text, and afterwards the registry has
\* exactly one entry for the key, holding that text (no other key is added).
C7_RegistryIdempotence ==
    [][\A k \in Keys :
          (Registers(k) /\ (k \in DOMAIN registry => RegistryView[k].sql = last_call'.sql)) =>
              /\ last_call'.outcome = "returned"
              /\ last_call'.ret = last_call'.sql
              /\ DOMAIN registry' = DOMAIN registry \cup {k}
              /\ RegistryView'[k].sql = last_call'.sql]_vars

C7_Witness ==
    /\ last_call.n >= 2
    /\ last_call.outcome = "returned"
    /\ last_call.key \in DOMAIN first_sql
    /\ first_sql[last_call.key] = last_call.sql
    /\ Len(heap) >= 2
    /\ \E r \in 1..(Len(heap) - 1) : heap[r].sql = last_call.sql /\ registry[last_call.key] # r
                                     /\ DOMAIN registry = {last_call.key}

\* C8: after any sequence of register_query calls the text stored under a key
\* is the text of the first successful registration of that key, and a key
\* that is in the registry stays in it.
C8_TextImmutable ==
    [][/\ DOMAIN registry \subseteq DOMAIN registry'
       /\ DOMAIN registry' = DOMAIN first_sql'
       /\ \A k \in DOMAIN registry' : RegistryView'[k].sql = first_sql'[k]]_vars

C8_Witness ==
    /\ last_call.n >= 3
    /\ last_call.outcome = "ValueError"
    /\ DOMAIN registry = Keys
    /\ RegistryView[last_call.key].sql = first_sql[last_call.key]

\* C9: when two threads register a key concurrently with different texts, at
\* most one text is ever returned for the key, and the text stored under the
\* key is the one that was returned.
C9_ConcurrentRegistration ==
    \A k \in Keys :
        /\ Cardinality(handed[k]) <= 1
        /\ (k \in DOMAIN registry /\ handed[k] # {}) => handed[k] = {RegistryView[k].sql}

\* C10: what the registry holds changes only by a store of register_query;
\* nothing a caller does to the value get_registry returned changes it.
C10_Snapshot ==
    [][RegistryView' # RegistryView => last_call'.n = last_call.n + 1]_vars

(***************************************************************************)
(* Properties of the assistant conversation (agent.py)                     *)
(***************************************************************************)
\* s is an initial segment of t
IsPrefix(s, t) == Len(s) <= Len(t) /\ \A i \in 1..Len(s) : s[i] = t[i]
\* the tokens of part appear in str, contiguous and in order
HasSub(str, part) ==
    \E i \in 0..(Len(str) - Len(part)) : \A j \in 1..Len(part) : str[i + j] = part[j]
\* the thread of the caller's page after the step
ThreadAfter == ReadThreadIn(agent_threads', lists', thread.page_id)
\* the request was answered with status 200 and a body that decodes
Decoded(reply) ==
    /\ reply.shape \in {"tuple3", "tuple2", "dict"}
    /\ reply.status = 200
    /\ reply.body.valid
IsErrorEvent(e) == "event" \in DOMAIN e /\ e.event = "error"
HasErrorEvent(events) == \E i \in 1..Len(events) : IsErrorEvent(events[i])
\* the message of the first error event of a sequence that has one
FirstErrorMessage(events) ==
    LET i == CHOOSE k \in 1..Len(events) :
                 IsErrorEvent(events[k]) /\ \A j \in 1..(k - 1) : ~IsErrorEvent(events[j])
    IN IF "data" \in DOMAIN events[i] /\ "message" \in DOMAIN events[i].data
       THEN events[i].data.message
       ELSE <<"Unknown error">>
\* the texts of the events of the given types, in emission order
TextsOf(events, types) ==
    LET sel == SelectSeq(events, LAMBDA e : "event" \in DOMAIN e /\ e.event \in types)
    IN [i \in 1..Len(sel) |->
           IF "data" \in DOMAIN sel[i] /\ "text" \in DOMAIN sel[i].data
           THEN sel[i].data.text ELSE <<>>]
RECURSIVE Concat(_)
Concat(strs) == IF strs = <<>> THEN <<>> ELSE Head(strs) \o Concat(Tail(strs))

\* C11: every exchange appends exactly two turns to the thread: the step that
\* starts it appends the user turn with the question, the agent is called
\* with that turn already in the thread and changes nothing of the thread and
\* never fails the exchange, and the step that ends it leaves the thread as it
\* was before the exchange plus the user turn plus one assistant turn.
C11_ExchangeAtomicity ==
    [][ /\ (hpc = "idle" /\ hpc' = "agent") =>
              /\ ThreadAfter = Append(ReadThread(thread.page_id), Turn("user", prompt'))
              /\ before' = ReadThread(thread.page_id)
        /\ hpc = "agent" =>
              /\ ReadThread(thread.page_id) = Append(before, Turn("user", prompt))
              /\ ThreadAfter = ReadThread(thread.page_id)
              /\ hpc' = "respond"
              /\ ~op'.raised
        /\ hpc = "respond" =>
              /\ hpc' = "idle"
              /\ ~op'.raised
              /\ Len(ThreadAfter) = Len(before) + 2
              /\ SubSeq(ThreadAfter, 1, Len(before) + 1) = Append(before, Turn("user", prompt))
              /\ ThreadAfter[Len(before) + 2].role = "assistant"
      ]_vars
\* an exchange with the service has ended after an error event
C11_Witness ==
    /\ available
    /\ op.name = "handle_user_message"
    /\ \E p \in {"vp", "default"} :
          LET t == ReadThread(p)
          IN /\ Len(t) = 2
             /\ t[1] = Turn("user", <<"hello">>)
             /\ t[2].role = "assistant"
             /\ t[2].content = <<"**Error:** ", "quota">>

\* C12: when the request to the agent service raises, the call returns an
\* error result instead of raising, and the exchange ends with two new turns,
\* the assistant turn starting with the error marker and carrying the detail
\* of the exception.
C12_ErrorSurfacing ==
    [][ /\ (hpc = "agent" /\ hpc' # "agent" /\ response'.shape = "raise") =>
              /\ hpc' = "respond"
              /\ ~op'.raised
              /\ "error" \in DOMAIN result'
        /\ (hpc = "respond" /\ response.shape = "raise") =>
              /\ ~op'.raised
              /\ Len(ThreadAfter) = Len(before) + 2
              /\ ThreadAfter[Len(before) + 1] = Turn("user", prompt)
              /\ ThreadAfter[Len(before) + 2].role = "assistant"
              /\ ThreadAfter[Len(before) + 2].content[1] = "**Error:** "
              /\ HasSub(ThreadAfter[Len(before) + 2].content, response.detail)
      ]_vars
C12_Witness ==
    /\ op.name = "handle_user_message"
    /\ ~op.raised
    /\ ReadThread("vp") = << Turn("user", <<"hello">>),
                             Turn("assistant", <<"**Error:** ", "Agent request failed: ",
                                                 "connection reset">>) >>

\* C13: a turn appended through the list a caller got from _get_thread is in
\* the thread a following _get_thread of that page reads, also when
\* _clear_thread was called for the page since the caller got the list.
C13_LiveHandle ==
    [][ (hpc = "idle" /\ hpc' = "agent") =>
            /\ ThreadAfter # <<>>
            /\ ThreadAfter[Len(ThreadAfter)] = Turn("user", prompt')
      ]_vars

\* C14: a step that is not a clear of a page leaves what the page's thread
\* held as a prefix of what it holds afterwards, growing by at most one turn;
\* an exchange on an empty thread leaves the user turn then the assistant turn;
\* after a clear of a page its thread reads empty.
C14_AppendOnly ==
    [][ /\ \A p \in Personas :
              IF op'.name = "clear_thread" /\ op'.page_id = p
              THEN ReadThreadIn(agent_threads', lists', p) = <<>>
              ELSE /\ IsPrefix(ReadThread(p), ReadThreadIn(agent_threads', lists', p))
                   /\ Len(ReadThreadIn(agent_threads', lists', p)) <= Len(ReadThread(p)) + 1
        /\ (hpc = "respond" /\ before = <<>> /\ ReadThread(thread.page_id) = lists[thread.ref]) =>
              /\ Len(ThreadAfter) = 2
              /\ ThreadAfter[1] = Turn("user", prompt)
              /\ ThreadAfter[2].role = "assistant"
      ]_vars
\* a thread that held two exchanges has been cleared
C14_Witness ==
    /\ op.name = "clear_thread"
    /\ thread.held
    /\ thread.page_id = op.page_id
    /\ Len(lists[thread.ref]) = 4
    /\ lists[thread.ref][1].role = "user"
    /\ lists[thread.ref][2].role = "assistant"
    /\ ReadThread(op.page_id) = <<>>

\* C15: _clear_thread never raises, also when the session has no thread store
\* yet, and the _get_thread of the same page that follows it returns an empty
\* thread.
C15_ClearMissing ==
    [][ /\ op'.name = "clear_thread" =>
              /\ ~op'.raised
              /\ ReadThreadIn(agent_threads', lists', op'.page_id) = <<>>
        /\ (op.name = "clear_thread" /\ op'.name = "get_thread"
                /\ thread'.page_id = op.page_id) =>
              /\ thread'.held
              /\ lists'[thread'.ref] = <<>>
      ]_vars
\* a page was cleared in a session without a thread store
C15_Witness ==
    /\ op.name = "clear_thread"
    /\ ~op.raised
    /\ ~agent_threads.present

\* C16: when the body decodes to an event sequence holding an error event,
\* the result of the call is an error result with the message of the first
\* error event (a default message when it has none) and nothing else.
C16_ErrorShortCircuit ==
    (hpc = "respond" /\ Decoded(response) /\ response.body.value.kind = "list"
         /\ HasErrorEvent(response.body.value.events)) =>
        /\ DOMAIN result = {"error"}
        /\ result.error = FirstErrorMessage(response.body.value.events)
\* a tool output precedes the error event
C16_Witness ==
    /\ hpc = "respond"
    /\ Decoded(response)
    /\ response.body.value.events =
           << [event |-> "tool_result", data |-> [text |-> <<"x">>]],
              [event |-> "error", data |-> [message |-> <<"quota">>]] >>
    /\ result = [error |-> <<"quota">>]

\* C17: when the service answers with status 200 and the body carries an
\* error, as an error event or as the error field of a flat object, the
\* assistant turn of the exchange is an error turn holding that message.
C17_SemanticError ==
    [][ (/\ hpc = "respond"
         /\ Decoded(response)
         /\ \/ /\ response.body.value.kind = "list"
               /\ HasErrorEvent(response.body.value.events)
               /\ FirstErrorMessage(response.body.value.events) = <<"quota">>
            \/ /\ response.body.value.kind = "dict"
               /\ "error" \in DOMAIN response.body.value.fields) =>
            /\ "error" \in DOMAIN result
            /\ ThreadAfter[Len(ThreadAfter)].content[1] = "**Error:** "
            /\ HasSub(ThreadAfter[Len(ThreadAfter)].content, <<"quota">>)
      ]_vars

\* C18: when the body decodes to an event sequence without an error event, the
\* response text is the texts of the text events joined in emission order and
\* the tool outputs are the texts of the tool_result and analyst_result events
\* in emission order; no other event contributes.
C18_FoldingOrder ==
    (hpc = "respond" /\ Decoded(response) /\ response.body.value.kind = "list"
         /\ ~HasErrorEvent(response.body.value.events)) =>
        /\ DOMAIN result = {"response", "tool_results"}
        /\ result.response = Concat(TextsOf(response.body.value.events, {"text"}))
        /\ result.tool_results.items =
               TextsOf(response.body.value.events, {"tool_result", "analyst_result"})
\* an analyst output precedes a tool output
C18_Witness ==
    /\ hpc = "respond"
    /\ Decoded(response)
    /\ response.body.value.events =
           << [event |-> "analyst_result", data |-> [text |-> <<"y">>]],
              [event |-> "tool_result", data |-> [text |-> <<"x">>]] >>
    /\ result.tool_results.items = << <<"y">>, <<"x">> >>

\* C19: one call of query_agent sends at most one request; after an exception
\* or a status other than 200 it has returned an error result with that one
\* request sent.
C19_NoRetry ==
    /\ requests <= 1
    /\ (hpc = "respond" /\ response # NoReply
            /\ (response.shape = "raise" \/ response.status # 200
                    \/ (~response.body.valid /\ response.shape # "dict_nocontent"))) =>
           /\ requests = 1
           /\ "error" \in DOMAIN result
\* the request timed out and the call has returned
C19_Witness ==
    /\ hpc = "respond"
    /\ response.shape = "raise"
    /\ response.detail = <<"timed out">>
    /\ requests = 1
    /\ result = [error |-> <<"Agent request failed: ", "timed out">>]

\* the answer the canned responses give to each question asked
CannedAnswer(q) ==
    CASE q = <<"Supplier", "Risk">> -> <<"Based on the supplier risk assessment, ...">>
      [] q = <<"maverick">> -> <<"Current maverick spend is approximately $1.2M ...">>
      [] q = <<"consolidat">> -> <<"There are 6 active consolidation scenarios ...">>
      [] q = <<"compliance">> -> <<"FDA compliance requires audit trails ...">>
      [] OTHER -> <<"I can help you with questions about ... Your question was: '">>
                      \o q \o <<"'">>

\* C21: where the agent service is not available, query_agent sends no
\* request and returns a success result whose text is the canned answer of the
\* question's keywords (matched on the lower-cased question), whatever the
\* page and the turns already in the thread.
C21_DegradedMode ==
    (hpc = "respond" /\ ~available) =>
        /\ requests = 0
        /\ response = NoReply
        /\ result = [response |-> CannedAnswer(prompt), tool_results |-> NoneList]
\* a capitalised supplier risk question asked on a thread with history
C21_Witness ==
    /\ hpc = "respond"
    /\ ~available
    /\ prompt = <<"Supplier", "Risk">>
    /\ Len(before) = 2
    /\ before[1].content = <<"hello">>
    /\ thread.page_id = "procurement"
    /\ result.response = <<"Based on the supplier risk assessment, ...">>

\* C22: a value query_agent returns with the agent service available is never
\* a value the canned responses return: the caller can tell from the result
\* which of the two answered.
C22_Distinguishable ==
    (hpc = "respond" /\ available) => result \notin {MockAgentResponse(q) : q \in Questions}

\* C23: when the body decodes to a flat object with a message or a response
\* field, the response text is the value of the message field if there is
\* one, else of the response field, and there are no tool outputs.
C23_FlatMessage ==
    (hpc = "respond" /\ Decoded(response) /\ response.body.value.kind = "dict"
         /\ {"message", "response"} \cap DOMAIN response.body.value.fields # {}) =>
        /\ DOMAIN result = {"response", "tool_results"}
        /\ result.response =
               IF "message" \in DOMAIN response.body.value.fields
               THEN response.body.value.fields.message
               ELSE response.body.value.fields.response
        /\ result.tool_results.items = <<>>
\* both fields are in the object
C23_Witness ==
    /\ hpc = "respond"
    /\ Decoded(response)
    /\ response.body.value.kind = "dict"
    /\ DOMAIN response.body.value.fields = {"message", "response"}
    /\ result.response = <<"m">>

\* the blocks of the tool outputs from the i-th on, each between its fences
RECURSIVE FencedFrom(_, _)
FencedFrom(items, i) ==
    IF i > Len(items) THEN <<>>
    ELSE <<"[fence]\n">> \o items[i] \o <<"\n[fence]\n">> \o FencedFrom(items, i + 1)

\* C24: the assistant turn of an exchange that got a success result holds the
\* response text alone when there are no tool outputs, and else the response
\* text, the tool results heading and one fenced block per tool output in the
\* order of the result.
C24_ToolRendering ==
    [][ (hpc = "respond" /\ "error" \notin DOMAIN result) =>
            ThreadAfter[Len(ThreadAfter)] =
                Turn("assistant",
                     IF result.tool_results.items = <<>>
                     THEN result.response
                     ELSE result.response \o <<"\n\n**Tool Results:**\n">>
                              \o FencedFrom(result.tool_results.items, 1))
      ]_vars
\* the turn of an answer with two tool outputs and no text
C24_Witness ==
    /\ op.name = "handle_user_message"
    /\ \E p \in {"vp", "default"} :
          /\ Len(ReadThread(p)) = 2
          /\ ReadThread(p)[2].content =
                 <<"\n\n**Tool Results:**\n", "[fence]\n", "y", "\n[fence]\n",
                   "[fence]\n", "x", "\n[fence]\n">>

\* C25: every turn of every list of turns, stored for a page or held by a
\* caller, has the role user or the role assistant.
C25_RecognizedRoles ==
    \A r \in DOMAIN lists : \A i \in 1..Len(lists[r]) : lists[r][i].role \in {"user", "assistant"}
\* a thread holds two exchanges
C25_Witness ==
    /\ Len(ReadThread("vp")) = 4
    /\ ReadThread("vp")[3].role = "user"
    /\ ReadThread("vp")[4].role = "assistant"

\* C26: between the operations of the panel every stored thread has an even
\* number of turns, a user turn at every odd position and an assistant turn at
\* every even one.
C26_Alternating ==
    hpc = "idle" =>
        \A p \in {"vp", "default"} :
            /\ Len(ReadThread(p)) % 2 = 0
            /\ \A i \in 1..Len(ReadThread(p)) :
                  ReadThread(p)[i].role = IF i % 2 = 1 THEN "user" ELSE "assistant"
\* a page holds two exchanges, the first answered with an error
C26_Witness ==
    /\ hpc = "idle"
    /\ available
    /\ op.name = "handle_user_message"
    /\ Len(ReadThread("default")) = 4
    /\ ReadThread("default")[2].content[1] = "**Error:** "
    /\ ReadThread("default")[4].content[1] = "x"

\* the page a step works on
TargetPage ==
    IF op'.name = "clear_thread" THEN op'.page_id
    ELSE IF op'.name = "get_thread" THEN thread'.page_id
    ELSE thread.page_id

\* C27: a step of _get_thread, _clear_thread or _handle_user_message changes
\* the thread of no page other than the one it works on.
C27_ThreadIsolation ==
    [][ \A p \in Personas :
            p # TargetPage => ReadThreadIn(agent_threads', lists', p) = ReadThread(p)
      ]_vars
\* one page is cleared and gets a turn while the other keeps its exchange
C27_Witness ==
    /\ hpc = "agent"
    /\ thread.page_id = "vp"
    /\ Len(ReadThread("vp")) = 1
    /\ Len(ReadThread("procurement")) = 2

\* C28: every value query_agent returns is either an error result holding an
\* error message and nothing else, or a success result holding a response
\* text and a tool output field and nothing else; with the service available
\* the call never raises.
C28_ResultShape ==
    [][ hpc = "agent" =>
            /\ hpc' = "respond"
            /\ ~op'.raised
            /\ \/ DOMAIN result' = {"error"}
               \/ /\ DOMAIN result' = {"response", "tool_results"}
                  /\ DOMAIN result'.tool_results = {"is_none", "items"}
                  /\ result'.tool_results.is_none <=> result'.tool_results.items = <<>>
      ]_vars
\* a body that is not JSON came with status 200
C28_Witness ==
    /\ hpc = "respond"
    /\ response.status = 200
    /\ response.shape = "tuple2"
    /\ response.body.is_str /\ ~response.body.valid
    /\ result = [error |-> <<"Agent request failed: ", "Expecting value">>]

\* C29: when the service replies with a status other than 200, the call
\* returns the error result naming the status and holding the body as it
\* came, decoding nothing, and the assistant turn of the exchange is that
\* error behind the error marker.
C29_NonSuccessStatus ==
    [][ /\ (hpc = "agent" /\ hpc' = "respond" /\ response'.shape \notin {"raise", "none"}
                /\ response'.status # 200) =>
              result' = [error |-> <<"API Error (", "500", "): ">>
                                       \o (IF response'.shape = "dict_nocontent"
                                           THEN <<"{}">> ELSE response'.body.raw)]
        /\ (hpc = "respond" /\ response.shape \notin {"raise", "none"}
                /\ response.status # 200) =>
              /\ ThreadAfter[Len(ThreadAfter)].role = "assistant"
              /\ ThreadAfter[Len(ThreadAfter)].content = <<"**Error:** ">> \o result.error
      ]_vars
\* a body that would decode to a text came with status 500
C29_Witness ==
    /\ hpc = "respond"
    /\ response.status = 500
    /\ response.body.valid
    /\ response.body.value.kind = "list"
    /\ result = [error |-> <<"API Error (", "500", "): ", "<body>">>]

\* C30: a register_query call for a registered key with the identical text
\* and another description leaves the entry of the key as it was, text and
\* description.
C30_ReRegistration ==
    [][\A k \in Keys :
          (/\ Registers(k)
           /\ k \in DOMAIN registry
           /\ RegistryView[k].sql = last_call'.sql
           /\ RegistryView[k].description # last_call'.description) =>
              RegistryView'[k] = RegistryView[k]]_vars

====
